---- MODULE Spec2Model ----
(***************************************************************************)
(* Autonomous delivery agent: the grid environment, the five pathfinding   *)
(* algorithms and the replanning executor (DeliveryAgent.navigate_to_goal).*)
(* Positions are pairs <<x, y>>.  Python's 0-based list indices are kept   *)
(* in the operators' arguments; a TLA+ sequence is read at index + 1.      *)
(***************************************************************************)
EXTENDS Integers, Sequences, FiniteSets, TLC

(* ------------------------------ bounds -------------------------------- *)
\* GridEnvironment(width, height) of the modelled instances
Width == 3
Height == 2
\* terrain costs of the modelled instances range over 0..MaxTerrainCost
MaxTerrainCost == 2
\* navigate_to_goal(goal, max_steps) with max_steps in 0..MaxStepBudget
MaxStepBudget == 5
\* at most MaxObstacles cells of the grid are CellType.OBSTACLE
MaxObstacles == 2
\* a MovingObstacle's positions list has at most MaxPeriod entries
MaxPeriod == 2
\* find_path(start, goal, start_time) with start_time in 0..MaxStartTime
MaxStartTime == 1
\* planning_horizon given to the TemporalAStar constructor in HorizonSpec
ShortHorizon == 2
\* calls of set_cell, set_terrain_cost and add_moving_obstacle the caller
\* makes in ExecSpec
MaxEdits == 2

(* ------------------------- program constants -------------------------- *)
\* float('inf'): larger than every finite cost of the modelled instances
Infinity == 1000000
\* time=None of is_passable / get_neighbors
None == -1
\* TemporalAStar(environment, planning_horizon=50)
planning_horizon == 50
\* HillClimbingReplanner(environment, max_restarts)
max_restarts == 5

VARIABLES
  grid_obstacles,    \* cells whose grid[y][x] is CellType.OBSTACLE
  terrain_costs,     \* terrain_costs[y][x], as a function of <<x, y>>
  moving_obstacles,  \* sequence of MovingObstacle.positions
  start_pos,         \* GridEnvironment.start_pos (NoPosition for None)
  current_time,      \* GridEnvironment.current_time
  position,          \* DeliveryAgent.position
  path,              \* DeliveryAgent.path
  path_index,        \* DeliveryAgent.path_index
  total_cost,        \* DeliveryAgent.total_cost
  total_time,        \* DeliveryAgent.total_time
  replanning_count,  \* DeliveryAgent.replanning_count
  search_results,    \* DeliveryAgent.search_results
  algorithm_name,    \* DeliveryAgent.algorithm_name
  goal,              \* navigate_to_goal's goal
  max_steps,         \* navigate_to_goal's max_steps
  steps,             \* navigate_to_goal's local steps
  pc,                \* position of navigate_to_goal ("start", "loop", "done")
                     \* or of the search driver ("search")
  ret,               \* navigate_to_goal's return value
  hist               \* observation log of the run (not program state)

vars == <<grid_obstacles, terrain_costs, moving_obstacles, start_pos, current_time,
          position, path, path_index, total_cost, total_time,
          replanning_count, search_results, algorithm_name, goal,
          max_steps, steps, pc, ret, hist>>

Cells == {<<x, y>> : x \in 0..(Width - 1), y \in 0..(Height - 1)}

\* no position: the goal before a navigation is requested, and the value
\* None of environment.start_pos and of the position of an agent built on it
NoPosition == <<-1, -1>>

\* 4-adjacency of two positions
Adjacent(a, b) ==
  \/ a[1] = b[1] /\ (a[2] - b[2] = 1 \/ b[2] - a[2] = 1)
  \/ a[2] = b[2] /\ (a[1] - b[1] = 1 \/ b[1] - a[1] = 1)

(* --------------------------- environment.py --------------------------- *)
Abs(n) == IF n < 0 THEN -n ELSE n

get_position_at_time(positions, time) ==
  IF Len(positions) = 0 THEN <<-1, -1>>
  ELSE positions[(time % Len(positions)) + 1]

is_valid_position(x, y) == 0 <= x /\ x < Width /\ 0 <= y /\ y < Height

\* is_passable without the static obstacle check
is_passable_ignores_static(x, y, time) ==
  IF ~is_valid_position(x, y) THEN FALSE
  ELSE IF time # None
          /\ \E i \in 1..Len(moving_obstacles) :
               get_position_at_time(moving_obstacles[i], time) = <<x, y>>
       THEN FALSE
  ELSE TRUE

is_passable(x, y, time) ==
  IF ~is_valid_position(x, y) THEN FALSE
  ELSE IF <<x, y>> \in grid_obstacles THEN FALSE
  ELSE IF time # None
          /\ \E i \in 1..Len(moving_obstacles) :
               get_position_at_time(moving_obstacles[i], time) = <<x, y>>
       THEN FALSE
  ELSE TRUE

get_terrain_cost(x, y) ==
  IF is_valid_position(x, y) THEN terrain_costs[<<x, y>>] ELSE Infinity

directions == << <<0, 1>>, <<1, 0>>, <<0, -1>>, <<-1, 0>> >>

\* get_neighbors with a fifth, diagonal direction
get_neighbors_with_diagonal(x, y, time) ==
  LET cand == [i \in 1..5 |-> IF i = 5 THEN <<x + 1, y + 1>>
                              ELSE <<x + directions[i][1], y + directions[i][2]>>]
  IN SelectSeq(cand, LAMBDA p : is_passable(p[1], p[2], time))

get_neighbors(x, y, time) ==
  LET cand == [i \in 1..4 |-> <<x + directions[i][1], y + directions[i][2]>>]
  IN SelectSeq(cand, LAMBDA p : is_passable(p[1], p[2], time))

(* ------------------------------- heapq -------------------------------- *)
\* Node.__lt__ on two arena handles
\* Node.__lt__ with the comparison turned round
NodeLt_reversed(nodes, a, b) == nodes[a].f_cost > nodes[b].f_cost

NodeLt(nodes, a, b) == nodes[a].f_cost < nodes[b].f_cost

RECURSIVE siftdown(_, _, _, _, _)
siftdown(nodes, heap, startpos, pos, newitem) ==
  IF pos > startpos
  THEN LET parentpos == (pos - 1) \div 2
           parent == heap[parentpos + 1]
       IN IF NodeLt(nodes, newitem, parent)
          THEN siftdown(nodes, [heap EXCEPT ![pos + 1] = parent],
                        startpos, parentpos, newitem)
          ELSE [heap EXCEPT ![pos + 1] = newitem]
  ELSE [heap EXCEPT ![pos + 1] = newitem]

RECURSIVE siftup(_, _, _, _)
siftup(nodes, heap, pos, newitem) ==
  LET endpos == Len(heap)
      childpos == 2 * pos + 1
  IN IF childpos < endpos
     THEN LET rightpos == childpos + 1
              c == IF rightpos < endpos
                      /\ ~NodeLt(nodes, heap[childpos + 1], heap[rightpos + 1])
                   THEN rightpos ELSE childpos
          IN siftup(nodes, [heap EXCEPT ![pos + 1] = heap[c + 1]], c, newitem)
     ELSE siftdown(nodes, heap, 0, pos, newitem)

heappush(nodes, heap, item) ==
  siftdown(nodes, Append(heap, item), 0, Len(heap), item)

\* the heap left by heappop; the popped item is heap[1]
heappop(nodes, heap) ==
  LET lastelt == heap[Len(heap)]
      rest == SubSeq(heap, 1, Len(heap) - 1)
  IN IF Len(rest) > 0
     THEN siftup(nodes, [rest EXCEPT ![1] = lastelt], 0, lastelt)
     ELSE rest

(* ---------------------------- algorithms.py --------------------------- *)
Node(pos, g, h, f, parent, time) ==
  [position |-> pos, g_cost |-> g, h_cost |-> h, f_cost |-> f,
   parent |-> parent, time |-> time]

SearchResult(p, cost, expanded, success, algorithm) ==
  [path |-> p, cost |-> cost, nodes_expanded |-> expanded,
   success |-> success, algorithm |-> algorithm]

\* reconstruct_path that stops at the node whose parent is None
RECURSIVE reconstruct_path_drops_start(_, _)
reconstruct_path_drops_start(nodes, n) ==
  IF n = 0 \/ nodes[n].parent = 0 THEN <<>>
  ELSE Append(reconstruct_path_drops_start(nodes, nodes[n].parent), nodes[n].position)

\* reconstruct_path without the final path.reverse()
RECURSIVE reconstruct_path_not_reversed(_, _)
reconstruct_path_not_reversed(nodes, n) ==
  IF n = 0 THEN <<>>
  ELSE <<nodes[n].position>> \o reconstruct_path_not_reversed(nodes, nodes[n].parent)

RECURSIVE reconstruct_path(_, _)
reconstruct_path(nodes, n) ==
  IF n = 0 THEN <<>>
  ELSE Append(reconstruct_path(nodes, nodes[n].parent), nodes[n].position)

manhattan_distance(pos1, pos2) == Abs(pos1[1] - pos2[1]) + Abs(pos1[2] - pos2[2])

\* the neighbor loop of BFS pushing at the front of the queue (appendleft)
RECURSIVE bfs_neighbors_lifo(_, _, _, _)
bfs_neighbors_lifo(s, cur, nbrs, i) ==
  IF i > Len(nbrs) THEN s
  ELSE LET neighbor == nbrs[i]
       IN IF neighbor \notin s.visited
          THEN bfs_neighbors_lifo(
                 [s EXCEPT !.visited = @ \cup {neighbor},
                           !.nodes = Append(@, Node(neighbor, 0, 0, 0, cur, 0)),
                           !.queue = <<Len(s.nodes) + 1>> \o @],
                 cur, nbrs, i + 1)
          ELSE bfs_neighbors_lifo(s, cur, nbrs, i + 1)

\* BreadthFirstSearch.find_path: the neighbor loop of one expansion
RECURSIVE bfs_neighbors(_, _, _, _)
bfs_neighbors(s, cur, nbrs, i) ==
  IF i > Len(nbrs) THEN s
  ELSE LET neighbor == nbrs[i]
       IN IF neighbor \notin s.visited
          THEN bfs_neighbors(
                 [s EXCEPT !.visited = @ \cup {neighbor},
                           !.nodes = Append(@, Node(neighbor, 0, 0, 0, cur, 0)),
                           !.queue = Append(@, Len(s.nodes) + 1)],
                 cur, nbrs, i + 1)
          ELSE bfs_neighbors(s, cur, nbrs, i + 1)

RECURSIVE bfs_loop(_, _)
bfs_loop(s, g) ==
  IF Len(s.queue) = 0
  THEN SearchResult(<<>>, Infinity, s.nodes_expanded, FALSE, "BFS")
  ELSE LET current == Head(s.queue)
           s1 == [s EXCEPT !.queue = Tail(@), !.nodes_expanded = @ + 1]
           cpos == s.nodes[current].position
       IN IF cpos = g
          THEN LET p == reconstruct_path(s.nodes, current)
               IN SearchResult(p, Len(p) - 1, s1.nodes_expanded, TRUE, "BFS")
          ELSE bfs_loop(bfs_neighbors(s1, current,
                                      get_neighbors(cpos[1], cpos[2], None), 1), g)

BreadthFirstSearch_find_path(start, g, start_time) ==
  bfs_loop([queue |-> <<1>>, visited |-> {start},
            nodes |-> <<Node(start, 0, 0, 0, 0, 0)>>, nodes_expanded |-> 0], g)

\* UniformCostSearch.find_path: the neighbor loop of one expansion
RECURSIVE ucs_neighbors(_, _, _, _)
ucs_neighbors(s, cur, nbrs, i) ==
  IF i > Len(nbrs) THEN s
  ELSE LET neighbor == nbrs[i]
           terrain_cost == get_terrain_cost(neighbor[1], neighbor[2])
           new_cost == s.nodes[cur].g_cost + terrain_cost
       IN IF neighbor \notin DOMAIN s.costs \/ new_cost < s.costs[neighbor]
          THEN LET nodes2 == Append(s.nodes, Node(neighbor, new_cost, 0, new_cost, cur, 0))
               IN ucs_neighbors(
                    [s EXCEPT !.costs = (neighbor :> new_cost) @@ @,
                              !.nodes = nodes2,
                              !.heap = heappush(nodes2, @, Len(nodes2))],
                    cur, nbrs, i + 1)
          ELSE ucs_neighbors(s, cur, nbrs, i + 1)

RECURSIVE ucs_loop(_, _)
ucs_loop(s, g) ==
  IF Len(s.heap) = 0
  THEN SearchResult(<<>>, Infinity, s.nodes_expanded, FALSE, "UCS")
  ELSE LET current == s.heap[1]
           s1 == [s EXCEPT !.heap = heappop(s.nodes, @)]
           cpos == s.nodes[current].position
       IN IF cpos \in s.visited
          THEN ucs_loop(s1, g)
          ELSE LET s2 == [s1 EXCEPT !.visited = @ \cup {cpos},
                                    !.nodes_expanded = @ + 1]
               IN IF cpos = g
                  THEN SearchResult(reconstruct_path(s.nodes, current),
                                    s.nodes[current].g_cost,
                                    s2.nodes_expanded, TRUE, "UCS")
                  ELSE ucs_loop(ucs_neighbors(s2, current,
                                  get_neighbors(cpos[1], cpos[2], None), 1), g)

UniformCostSearch_find_path(start, g, start_time) ==
  ucs_loop([heap |-> <<1>>, visited |-> {}, costs |-> (start :> 0),
            nodes |-> <<Node(start, 0, 0, 0, 0, 0)>>, nodes_expanded |-> 0], g)

\* AStarSearch.find_path (heuristic_func = manhattan_distance, the default)
RECURSIVE astar_neighbors(_, _, _, _, _)
astar_neighbors(s, cur, nbrs, i, g) ==
  IF i > Len(nbrs) THEN s
  ELSE LET neighbor == nbrs[i]
           terrain_cost == get_terrain_cost(neighbor[1], neighbor[2])
           new_g_cost == s.nodes[cur].g_cost + terrain_cost
       IN IF neighbor \notin DOMAIN s.costs \/ new_g_cost < s.costs[neighbor]
          THEN LET h_cost == manhattan_distance(neighbor, g)
                   f_cost == new_g_cost + h_cost
                   nodes2 == Append(s.nodes,
                                    Node(neighbor, new_g_cost, h_cost, f_cost, cur, 0))
               IN astar_neighbors(
                    [s EXCEPT !.costs = (neighbor :> new_g_cost) @@ @,
                              !.nodes = nodes2,
                              !.heap = heappush(nodes2, @, Len(nodes2))],
                    cur, nbrs, i + 1, g)
          ELSE astar_neighbors(s, cur, nbrs, i + 1, g)

RECURSIVE astar_loop(_, _)
astar_loop(s, g) ==
  IF Len(s.heap) = 0
  THEN SearchResult(<<>>, Infinity, s.nodes_expanded, FALSE, "A*")
  ELSE LET current == s.heap[1]
           s1 == [s EXCEPT !.heap = heappop(s.nodes, @)]
           cpos == s.nodes[current].position
       IN IF cpos \in s.visited
          THEN astar_loop(s1, g)
          ELSE LET s2 == [s1 EXCEPT !.visited = @ \cup {cpos},
                                    !.nodes_expanded = @ + 1]
               IN IF cpos = g
                  THEN SearchResult(reconstruct_path(s.nodes, current),
                                    s.nodes[current].g_cost,
                                    s2.nodes_expanded, TRUE, "A*")
                  ELSE astar_loop(astar_neighbors(s2, current,
                                    get_neighbors(cpos[1], cpos[2], None), 1, g), g)

AStarSearch_find_path(start, g, start_time) ==
  LET start_h == manhattan_distance(start, g)
  IN astar_loop([heap |-> <<1>>, visited |-> {}, costs |-> (start :> 0),
                 nodes |-> <<Node(start, 0, start_h, start_h, 0, 0)>>,
                 nodes_expanded |-> 0], g)

\* TemporalAStar.find_path: push of one successor (the wait action and each
\* move action share the relaxation test on costs[(position, time)])
temporal_push(s, cur, pos, new_g_cost, next_time, g) ==
  LET st == <<pos, next_time>>
  IN IF st \notin DOMAIN s.costs \/ new_g_cost < s.costs[st]
     THEN LET h_cost == manhattan_distance(pos, g)
              f_cost == new_g_cost + h_cost
              nodes2 == Append(s.nodes,
                               Node(pos, new_g_cost, h_cost, f_cost, cur, next_time))
          IN [s EXCEPT !.costs = (st :> new_g_cost) @@ @,
                       !.nodes = nodes2,
                       !.heap = heappush(nodes2, @, Len(nodes2))]
     ELSE s

\* the wait action at no cost
temporal_wait_costs_nothing(s, cur, g) ==
  LET cpos == s.nodes[cur].position
      next_time == s.nodes[cur].time + 1
  IN IF is_passable(cpos[1], cpos[2], next_time)
     THEN temporal_push(s, cur, cpos, s.nodes[cur].g_cost, next_time, g)
     ELSE s

temporal_wait(s, cur, g) ==
  LET cpos == s.nodes[cur].position
      next_time == s.nodes[cur].time + 1
  IN IF is_passable(cpos[1], cpos[2], next_time)
     THEN temporal_push(s, cur, cpos, s.nodes[cur].g_cost + 1, next_time, g)
     ELSE s

RECURSIVE temporal_moves(_, _, _, _, _)
temporal_moves(s, cur, nbrs, i, g) ==
  IF i > Len(nbrs) THEN s
  ELSE LET neighbor == nbrs[i]
           terrain_cost == get_terrain_cost(neighbor[1], neighbor[2])
           new_g_cost == s.nodes[cur].g_cost + terrain_cost
       IN temporal_moves(
            temporal_push(s, cur, neighbor, new_g_cost, s.nodes[cur].time + 1, g),
            cur, nbrs, i + 1, g)

\* one iteration of the while heap loop that cuts off one tick later than
\* planning_horizon
temporal_step_late_cutoff(s, g, start_time) ==
  IF Len(s.heap) = 0
  THEN [s EXCEPT !.done = TRUE,
                 !.result = SearchResult(<<>>, Infinity, s.nodes_expanded, FALSE,
                                         "Temporal A*")]
  ELSE LET current == s.heap[1]
           s1 == [s EXCEPT !.heap = heappop(s.nodes, @)]
           cpos == s.nodes[current].position
           ctime == s.nodes[current].time
           state == <<cpos, ctime>>
       IN IF state \in s.visited
          THEN s1
          ELSE LET s2 == [s1 EXCEPT !.visited = @ \cup {state},
                                    !.nodes_expanded = @ + 1]
               IN IF cpos = g
                  THEN [s2 EXCEPT !.done = TRUE,
                                  !.result =
                                    SearchResult(reconstruct_path(s.nodes, current),
                                                 s.nodes[current].g_cost,
                                                 s2.nodes_expanded, TRUE,
                                                 "Temporal A*")]
                  ELSE IF ctime - start_time > s.planning_horizon + 1
                  THEN s2
                  ELSE temporal_moves(temporal_wait(s2, current, g), current,
                                      get_neighbors(cpos[1], cpos[2], ctime + 1),
                                      1, g)

\* one iteration of the while heap loop (the test of the loop condition
\* included: with an empty heap the failure result is returned); s carries
\* self.planning_horizon and, once the method has returned (done), the
\* SearchResult
temporal_step(s, g, start_time) ==
  IF Len(s.heap) = 0
  THEN [s EXCEPT !.done = TRUE,
                 !.result = SearchResult(<<>>, Infinity, s.nodes_expanded, FALSE,
                                         "Temporal A*")]
  ELSE LET current == s.heap[1]
           s1 == [s EXCEPT !.heap = heappop(s.nodes, @)]
           cpos == s.nodes[current].position
           ctime == s.nodes[current].time
           state == <<cpos, ctime>>
       IN IF state \in s.visited
          THEN s1
          ELSE LET s2 == [s1 EXCEPT !.visited = @ \cup {state},
                                    !.nodes_expanded = @ + 1]
               IN IF cpos = g
                  THEN [s2 EXCEPT !.done = TRUE,
                                  !.result =
                                    SearchResult(reconstruct_path(s.nodes, current),
                                                 s.nodes[current].g_cost,
                                                 s2.nodes_expanded, TRUE,
                                                 "Temporal A*")]
                  ELSE IF ctime - start_time > s.planning_horizon
                  THEN s2
                  ELSE temporal_moves(temporal_wait(s2, current, g), current,
                                      get_neighbors(cpos[1], cpos[2], ctime + 1),
                                      1, g)

\* the while heap loop: iterations until the method returns.  The loop is
\* unrolled by halving, n being a number of iterations it cannot exceed.
RECURSIVE temporal_loop(_, _, _, _)
temporal_loop(s, g, start_time, n) ==
  IF s.done THEN s
  ELSE IF n <= 1 THEN temporal_step(s, g, start_time)
  ELSE temporal_loop(temporal_loop(s, g, start_time, n \div 2),
                     g, start_time, n - (n \div 2))

\* TemporalAStar(environment, horizon).find_path: the search state when the
\* method returns (heap, visited, costs, every Node created, the result).
\* Every iteration pops one Node; a Node is pushed at the start and up to
\* five per expanded (position, time), whose time lies within horizon + 1
\* ticks of start_time.
TemporalAStar_search(start, g, start_time, horizon) ==
  LET start_h == manhattan_distance(start, g)
  IN temporal_loop([heap |-> <<1>>, visited |-> {}, costs |-> <<>>,
                    nodes |-> <<Node(start, 0, start_h, start_h, 0, start_time)>>,
                    nodes_expanded |-> 0, planning_horizon |-> horizon,
                    done |-> FALSE,
                    result |-> SearchResult(<<>>, Infinity, 0, FALSE, "Temporal A*")],
                   g, start_time, 2 + 5 * Width * Height * (horizon + 2))

\* TemporalAStar(environment).find_path, the instance the agent creates
TemporalAStar_find_path(start, g, start_time) ==
  TemporalAStar_search(start, g, start_time, planning_horizon).result

(* HillClimbingReplanner *)
InSeq(x, seq) == \E i \in 1..Len(seq) : seq[i] = x

\* a validity test that accepts every list of positions
is_valid_path_accepts_all(p) == Len(p) >= 0

is_valid_path(p) ==
  \A i \in 1..(Len(p) - 1) :
    InSeq(p[i + 1], get_neighbors(p[i][1], p[i][2], None))

RECURSIVE SumTerrain(_, _)
SumTerrain(p, i) ==
  IF i > Len(p) THEN 0
  ELSE get_terrain_cost(p[i][1], p[i][2]) + SumTerrain(p, i + 1)

\* enumerate index i is Python's i = index - 1; the start position is not counted
evaluate_path(p, start_time) ==
  IF ~is_valid_path(p) THEN Infinity
  ELSE IF \E i \in 1..Len(p) : ~is_passable(p[i][1], p[i][2], start_time + i - 1)
  THEN Infinity
  ELSE SumTerrain(p, 2)

\* get_path_neighbors: the list of valid single-waypoint substitutions, in
\* the order of the two nested loops (i is Python's index, 1..len-2)
RECURSIVE path_neighbors_from(_, _, _)
path_neighbors_from(p, i, j) ==
  IF i > Len(p) - 2 THEN <<>>
  ELSE LET nbrs == get_neighbors(p[i + 1][1], p[i + 1][2], None)
       IN IF j > Len(nbrs) THEN path_neighbors_from(p, i + 1, 1)
          ELSE LET new_path == [p EXCEPT ![i + 1] = nbrs[j]]
                   rest == path_neighbors_from(p, i, j + 1)
               IN IF is_valid_path(new_path) THEN <<new_path>> \o rest ELSE rest

\* the list of all single-waypoint substitutions, without the is_valid_path test
RECURSIVE path_neighbors_unchecked_from(_, _, _)
path_neighbors_unchecked_from(p, i, j) ==
  IF i > Len(p) - 2 THEN <<>>
  ELSE LET nbrs == get_neighbors(p[i + 1][1], p[i + 1][2], None)
       IN IF j > Len(nbrs) THEN path_neighbors_unchecked_from(p, i + 1, 1)
          ELSE <<[p EXCEPT ![i + 1] = nbrs[j]]>>
               \o path_neighbors_unchecked_from(p, i, j + 1)

get_path_neighbors_unchecked(p) == path_neighbors_unchecked_from(p, 1, 1)

get_path_neighbors(p) == path_neighbors_from(p, 1, 1)

\* perturb_path's random walk: every list new_segment the loop can end with.
\* left is the number of iterations of the for loop still to run.
RECURSIVE random_walks(_, _, _, _)
random_walks(current, new_segment, segment_end, left) ==
  IF left = 0 THEN {new_segment}
  ELSE LET neighbors == get_neighbors(current[1], current[2], None)
       IN IF Len(neighbors) > 0 /\ InSeq(segment_end, neighbors)
          THEN {Append(new_segment, segment_end)}
          ELSE IF Len(neighbors) > 0
          THEN UNION {random_walks(neighbors[k], Append(new_segment, neighbors[k]),
                                   segment_end, left - 1) : k \in 1..Len(neighbors)}
          ELSE {new_segment}

\* perturb_path: every path the random choices can produce
perturb_path(p) ==
  IF Len(p) < 3 THEN {p}
  ELSE UNION {
         LET end_idx == IF start_idx + r < Len(p) - 1 THEN start_idx + r ELSE Len(p) - 1
             segment_start == p[start_idx]        \* path[start_idx - 1]
             segment_end == p[end_idx + 1]        \* path[end_idx]
         IN { IF new_segment[Len(new_segment)] = segment_end
              THEN SubSeq(p, 1, start_idx) \o Tail(new_segment)
                   \o SubSeq(p, end_idx + 2, Len(p))
              ELSE p
              : new_segment \in random_walks(segment_start, <<segment_start>>,
                                             segment_end, end_idx - start_idx + 2) }
         : start_idx \in 1..(Len(p) - 2), r \in 1..3 }

\* the inner for loop of the hill climbing: first strictly improving neighbor.
\* Returns <<index of the accepted neighbor or 0, evaluations made>>.
RECURSIVE first_improving(_, _, _, _)
first_improving(neighbors, i, current_cost, start_time) ==
  IF i > Len(neighbors) THEN <<0, Len(neighbors)>>
  ELSE IF evaluate_path(neighbors[i], start_time) < current_cost
  THEN <<i, i>>
  ELSE first_improving(neighbors, i + 1, current_cost, start_time)

\* the while improved loop; c = [path, cost, evals]
RECURSIVE hill_climb(_, _)
hill_climb(c, start_time) ==
  LET neighbors == get_path_neighbors(c.path)
      f == first_improving(neighbors, 1, c.cost, start_time)
  IN IF f[1] = 0 THEN [c EXCEPT !.evals = @ + f[2]]
     ELSE hill_climb([path |-> neighbors[f[1]],
                      cost |-> evaluate_path(neighbors[f[1]], start_time),
                      evals |-> c.evals + f[2]], start_time)

\* a restart round that keeps the climbed path whatever its cost
restart_round_accepts_any(best, start_time) ==
  { LET current_cost == evaluate_path(current_path, start_time)
    IN IF current_cost = Infinity
       THEN [path |-> best.path, cost |-> best.cost, evals |-> 0]
       ELSE hill_climb([path |-> current_path, cost |-> current_cost,
                        evals |-> 0], start_time)
    : current_path \in perturb_path(best.path) }

\* one restart round from best = [path, cost]: every outcome
\* [path, cost, evals] the random perturbation allows
restart_round(best, start_time) ==
  { LET current_cost == evaluate_path(current_path, start_time)
    IN IF current_cost = Infinity
       THEN [path |-> best.path, cost |-> best.cost, evals |-> 0]
       ELSE LET c == hill_climb([path |-> current_path, cost |-> current_cost,
                                 evals |-> 0], start_time)
            IN IF c.cost < best.cost THEN c
               ELSE [path |-> best.path, cost |-> best.cost, evals |-> c.evals]
    : current_path \in perturb_path(best.path) }

\* the for restart loop: the set of [path, cost, total] after `left` more rounds
RECURSIVE restart_rounds(_, _, _)
restart_rounds(S, start_time, left) ==
  IF left = 0 THEN S
  ELSE LET bests == {[path |-> s.path, cost |-> s.cost] : s \in S}
       IN restart_rounds(
            UNION { LET outs == restart_round(b, start_time)
                    IN {[path |-> o.path, cost |-> o.cost, total |-> s.total + o.evals]
                        : o \in outs,
                          s \in {t \in S : t.path = b.path /\ t.cost = b.cost}}
                    : b \in bests },
            start_time, left - 1)

\* a find_path that wraps the baseline failure in a result of its own
HillClimbingReplanner_find_path_wraps_failure(start, g, start_time) ==
  LET initial_result == AStarSearch_find_path(start, g, start_time)
  IN IF ~initial_result.success
     THEN {SearchResult(<<>>, Infinity, initial_result.nodes_expanded, FALSE,
                        "Hill Climbing")}
     ELSE { SearchResult(s.path, s.cost, s.total, TRUE, "Hill Climbing")
            : s \in restart_rounds({[path |-> initial_result.path,
                                     cost |-> initial_result.cost,
                                     total |-> initial_result.nodes_expanded]},
                                   start_time, max_restarts) }

\* HillClimbingReplanner.find_path: the set of results the random source allows
HillClimbingReplanner_find_path(start, g, start_time) ==
  LET initial_result == AStarSearch_find_path(start, g, start_time)
  IN IF ~initial_result.success THEN {initial_result}
     ELSE { SearchResult(s.path, s.cost, s.total, TRUE, "Hill Climbing")
            : s \in restart_rounds({[path |-> initial_result.path,
                                     cost |-> initial_result.cost,
                                     total |-> initial_result.nodes_expanded]},
                                   start_time, max_restarts) }

(* ------------------------------ agent.py ------------------------------ *)
Algorithms == {"bfs", "ucs", "astar", "temporal_astar", "hill_climbing"}

\* a _create_algorithm that falls back to A* for a name it does not know
create_algorithm_defaults_to_astar(algorithm) ==
  CASE algorithm = "bfs" -> "BreadthFirstSearch"
    [] algorithm = "ucs" -> "UniformCostSearch"
    [] algorithm = "astar" -> "AStarSearch"
    [] algorithm = "temporal_astar" -> "TemporalAStar"
    [] algorithm = "hill_climbing" -> "HillClimbingReplanner"
    [] OTHER -> "AStarSearch"

\* _create_algorithm: the class instantiated for the name, or "ValueError"
create_algorithm(algorithm) ==
  CASE algorithm = "bfs" -> "BreadthFirstSearch"
    [] algorithm = "ucs" -> "UniformCostSearch"
    [] algorithm = "astar" -> "AStarSearch"
    [] algorithm = "temporal_astar" -> "TemporalAStar"
    [] algorithm = "hill_climbing" -> "HillClimbingReplanner"
    [] OTHER -> "ValueError"

\* self.algorithm.find_path of the variant _create_algorithm selected: the set
\* of results it can return (a single one for the deterministic variants)
find_path(algorithm, start, g, start_time) ==
  LET variant == create_algorithm(algorithm)
  IN CASE variant = "BreadthFirstSearch" ->
            {BreadthFirstSearch_find_path(start, g, start_time)}
       [] variant = "UniformCostSearch" ->
            {UniformCostSearch_find_path(start, g, start_time)}
       [] variant = "AStarSearch" ->
            {AStarSearch_find_path(start, g, start_time)}
       [] variant = "TemporalAStar" ->
            {TemporalAStar_find_path(start, g, start_time)}
       [] variant = "HillClimbingReplanner" ->
            HillClimbingReplanner_find_path(start, g, start_time)
       [] OTHER -> {}

\* plan_path that commits the path from its second element on
plan_path_skips_start(g, start_time, result) ==
  /\ result \in find_path(algorithm_name, position, g, start_time)
  /\ search_results' = Append(search_results, result)
  /\ IF result.success
     THEN path' = result.path /\ path_index' = 1
     ELSE UNCHANGED <<path, path_index>>

\* plan_path(goal, start_time) returning result
plan_path(g, start_time, result) ==
  /\ result \in find_path(algorithm_name, position, g, start_time)
  /\ search_results' = Append(search_results, result)
  /\ IF result.success
     THEN path' = result.path /\ path_index' = 0
     ELSE UNCHANGED <<path, path_index>>

\* replan that installs the new path but reports failure to execute_step
replan_returns_false(ok) ==
  IF Len(path) = 0
  THEN /\ ok = FALSE
       /\ hist' = [hist EXCEPT !.calls = @ + 1]
       /\ UNCHANGED <<path, path_index, search_results>>
  ELSE LET g == path[Len(path)]
       IN /\ \E result \in find_path(algorithm_name, position, g, current_time) :
               plan_path(g, current_time, result)
          /\ ok = FALSE
          /\ hist' = [hist EXCEPT !.calls = @ + 1,
                        !.replans = Append(@, [start |-> position, goal |-> g,
                                               time |-> current_time])]

\* replan that plans to the blocked waypoint instead of the path's last element
replan_to_waypoint(ok) ==
  IF Len(path) = 0
  THEN /\ ok = FALSE
       /\ hist' = [hist EXCEPT !.calls = @ + 1]
       /\ UNCHANGED <<path, path_index, search_results>>
  ELSE LET g == path[path_index + 1]
       IN /\ \E result \in find_path(algorithm_name, position, g, current_time) :
               plan_path(g, current_time, result) /\ ok = result.success
          /\ hist' = [hist EXCEPT !.calls = @ + 1,
                        !.replans = Append(@, [start |-> position, goal |-> g,
                                               time |-> current_time])]

\* replan() returning ok
replan(ok) ==
  IF Len(path) = 0
  THEN /\ ok = FALSE
       /\ hist' = [hist EXCEPT !.calls = @ + 1]
       /\ UNCHANGED <<path, path_index, search_results>>
  ELSE LET g == path[Len(path)]
       IN /\ \E result \in find_path(algorithm_name, position, g, current_time) :
               plan_path(g, current_time, result) /\ ok = result.success
          /\ hist' = [hist EXCEPT !.calls = @ + 1,
                        !.replans = Append(@, [start |-> position, goal |-> g,
                                               time |-> current_time])]

\* execute_step that checks the waypoint without the time (static obstacles only)
execute_step_static_check(ok) ==
  IF Len(path) = 0 \/ path_index >= Len(path)
  THEN /\ ok = FALSE
       /\ hist' = [hist EXCEPT !.calls = @ + 1]
       /\ UNCHANGED <<position, path, path_index, total_cost, total_time,
                      replanning_count, search_results, current_time>>
  ELSE LET next_position == path[path_index + 1]
       IN IF ~is_passable(next_position[1], next_position[2], None)
          THEN /\ replanning_count' = replanning_count + 1
               /\ replan(ok)
               /\ UNCHANGED <<position, total_cost, total_time, current_time>>
          ELSE /\ position' = next_position
               /\ path_index' = path_index + 1
               /\ total_cost' = total_cost
                                + get_terrain_cost(next_position[1], next_position[2])
               /\ current_time' = current_time + 1
               /\ total_time' = total_time + 1
               /\ ok = TRUE
               /\ hist' = [hist EXCEPT !.calls = @ + 1, !.moves = @ + 1]
               /\ UNCHANGED <<path, replanning_count, search_results>>

\* execute_step that calls update_time on a blocked step too
execute_step_ticks_when_blocked(ok) ==
  IF Len(path) = 0 \/ path_index >= Len(path)
  THEN /\ ok = FALSE
       /\ hist' = [hist EXCEPT !.calls = @ + 1]
       /\ UNCHANGED <<position, path, path_index, total_cost, total_time,
                      replanning_count, search_results, current_time>>
  ELSE LET next_position == path[path_index + 1]
       IN IF ~is_passable(next_position[1], next_position[2], current_time)
          THEN /\ replanning_count' = replanning_count + 1
               /\ replan(ok)
               /\ current_time' = current_time + 1
               /\ UNCHANGED <<position, total_cost, total_time>>
          ELSE /\ position' = next_position
               /\ path_index' = path_index + 1
               /\ total_cost' = total_cost
                                + get_terrain_cost(next_position[1], next_position[2])
               /\ current_time' = current_time + 1
               /\ total_time' = total_time + 1
               /\ ok = TRUE
               /\ hist' = [hist EXCEPT !.calls = @ + 1, !.moves = @ + 1]
               /\ UNCHANGED <<path, replanning_count, search_results>>

\* execute_step that adds the blocked waypoint's terrain cost before replanning
execute_step_charges_blocked_waypoint(ok) ==
  IF Len(path) = 0 \/ path_index >= Len(path)
  THEN /\ ok = FALSE
       /\ hist' = [hist EXCEPT !.calls = @ + 1]
       /\ UNCHANGED <<position, path, path_index, total_cost, total_time,
                      replanning_count, search_results, current_time>>
  ELSE LET next_position == path[path_index + 1]
       IN IF ~is_passable(next_position[1], next_position[2], current_time)
          THEN /\ replanning_count' = replanning_count + 1
               /\ replan(ok)
               /\ total_cost' = total_cost
                                + get_terrain_cost(next_position[1], next_position[2])
               /\ UNCHANGED <<position, total_time, current_time>>
          ELSE /\ position' = next_position
               /\ path_index' = path_index + 1
               /\ total_cost' = total_cost
                                + get_terrain_cost(next_position[1], next_position[2])
               /\ current_time' = current_time + 1
               /\ total_time' = total_time + 1
               /\ ok = TRUE
               /\ hist' = [hist EXCEPT !.calls = @ + 1, !.moves = @ + 1]
               /\ UNCHANGED <<path, replanning_count, search_results>>

\* execute_step() returning ok
execute_step(ok) ==
  IF Len(path) = 0 \/ path_index >= Len(path)
  THEN /\ ok = FALSE
       /\ hist' = [hist EXCEPT !.calls = @ + 1]
       /\ UNCHANGED <<position, path, path_index, total_cost, total_time,
                      replanning_count, search_results, current_time>>
  ELSE LET next_position == path[path_index + 1]
       IN IF ~is_passable(next_position[1], next_position[2], current_time)
          THEN /\ replanning_count' = replanning_count + 1
               /\ replan(ok)
               /\ UNCHANGED <<position, total_cost, total_time, current_time>>
          ELSE /\ position' = next_position
               /\ path_index' = path_index + 1
               /\ total_cost' = total_cost
                                + get_terrain_cost(next_position[1], next_position[2])
               /\ current_time' = current_time + 1
               /\ total_time' = total_time + 1
               /\ ok = TRUE
               /\ hist' = [hist EXCEPT !.calls = @ + 1, !.moves = @ + 1]
               /\ UNCHANGED <<path, replanning_count, search_results>>

EnvVars == <<grid_obstacles, terrain_costs, moving_obstacles, start_pos>>

\* the observation log before anything was observed
NoHistory ==
  [start0 |-> NoPosition, time0 |-> 0, calls |-> 0, moves |-> 0,
   replans |-> <<>>, edits |-> 0]

\* navigate_to_goal that enters the loop whatever the initial plan returned
PlanInitial_ignores_failure ==
  /\ pc = "start"
  /\ position # NoPosition
  /\ \E g \in Cells :
       /\ goal' = g
       /\ \E result \in find_path(algorithm_name, position, g, current_time) :
            plan_path(g, current_time, result)
  /\ pc' = "loop"
  /\ ret' = ret
  /\ max_steps' \in 0..MaxStepBudget
  /\ steps' = 0
  /\ hist' = [hist EXCEPT !.start0 = position, !.time0 = current_time]
  /\ UNCHANGED <<EnvVars, current_time, position, total_cost, total_time,
                 replanning_count, algorithm_name>>

\* navigate_to_goal, initial planning.  With position None (no start cell
\* on the map) find_path raises TypeError out of navigate_to_goal before
\* anything is assigned (pc = "raised").
PlanInitial ==
  /\ pc = "start"
  /\ IF position = NoPosition
     THEN /\ pc' = "raised"
          /\ UNCHANGED <<path, path_index, search_results, goal, max_steps,
                         steps, ret, hist>>
     ELSE /\ \E g \in Cells :
               /\ goal' = g
               /\ \E result \in find_path(algorithm_name, position, g, current_time) :
                    /\ plan_path(g, current_time, result)
                    /\ IF result.success
                       THEN pc' = "loop" /\ ret' = ret
                       ELSE pc' = "done" /\ ret' = FALSE
          /\ max_steps' \in 0..MaxStepBudget
          /\ steps' = 0
          /\ hist' = [hist EXCEPT !.start0 = position, !.time0 = current_time]
  /\ UNCHANGED <<EnvVars, current_time, position, total_cost, total_time,
                 replanning_count, algorithm_name>>

\* the while loop testing steps <= max_steps
Step_one_over_budget ==
  /\ pc = "loop"
  /\ position # goal /\ steps <= max_steps
  /\ \E ok \in BOOLEAN :
       /\ execute_step(ok)
       /\ IF ok
          THEN steps' = steps + 1 /\ pc' = "loop" /\ ret' = ret
          ELSE steps' = steps /\ pc' = "done" /\ ret' = (position' = goal)
  /\ UNCHANGED <<EnvVars, algorithm_name, goal, max_steps>>

\* navigate_to_goal, one iteration of the while loop
Step ==
  /\ pc = "loop"
  /\ position # goal /\ steps < max_steps
  /\ \E ok \in BOOLEAN :
       /\ execute_step(ok)
       /\ IF ok
          THEN steps' = steps + 1 /\ pc' = "loop" /\ ret' = ret
          ELSE steps' = steps /\ pc' = "done" /\ ret' = (position' = goal)
  /\ UNCHANGED <<EnvVars, algorithm_name, goal, max_steps>>

\* the return value computed from the step budget instead of the position
Finish_success_by_budget ==
  /\ pc = "loop"
  /\ ~(position # goal /\ steps < max_steps)
  /\ pc' = "done"
  /\ ret' = (steps < max_steps)
  /\ UNCHANGED <<EnvVars, current_time, position, path, path_index, total_cost,
                 total_time, replanning_count, search_results, algorithm_name,
                 goal, max_steps, steps, hist>>

\* navigate_to_goal, the loop condition fails: success = position == goal
Finish ==
  /\ pc = "loop"
  /\ ~(position # goal /\ steps < max_steps)
  /\ pc' = "done"
  /\ ret' = (position = goal)
  /\ UNCHANGED <<EnvVars, current_time, position, path, path_index, total_cost,
                 total_time, replanning_count, search_results, algorithm_name,
                 goal, max_steps, steps, hist>>

\* DeliveryAgent.reset(), called on an agent that is not inside
\* navigate_to_goal; the locals of the last navigation and the observation
\* log of the agent start afresh
Reset ==
  /\ pc \in {"start", "done", "raised", "api"}
  /\ position' = start_pos
  /\ path' = <<>>
  /\ path_index' = 0
  /\ total_cost' = 0
  /\ total_time' = 0
  /\ replanning_count' = 0
  /\ search_results' = <<>>
  /\ current_time' = 0
  /\ pc' = IF pc = "api" THEN "api" ELSE "start"
  /\ goal' = NoPosition
  /\ max_steps' = 0
  /\ steps' = 0
  /\ ret' = FALSE
  /\ hist' = [NoHistory EXCEPT !.edits = hist.edits]
  /\ UNCHANGED <<EnvVars, algorithm_name>>

(* ------------------------- modelled instances ------------------------- *)
\* GridEnvironment.__init__: every terrain cost is 1
DefaultCosts == [c \in Cells |-> 1]

\* MovingObstacle.positions: every non-empty list of at most MaxPeriod cells
\* of S in which the obstacle stays or moves to a 4-adjacent cell each tick
PositionLists(S) ==
  UNION {{m \in [1..n -> S] :
            \A i \in 1..(n - 1) : m[i] = m[i + 1] \/ Adjacent(m[i], m[i + 1])}
         : n \in 1..MaxPeriod}

Env(obstacles, costs, moving) ==
  [grid_obstacles |-> obstacles, terrain_costs |-> costs, moving_obstacles |-> moving]

\* static maps: at most MaxObstacles obstacle cells (set_cell with OBSTACLE)
StaticEnvs ==
  {Env(S, DefaultCosts, <<>>) : S \in {T \in SUBSET Cells : Cardinality(T) <= MaxObstacles}}

\* dynamic maps: one moving obstacle (add_moving_obstacle), also one that
\* has no positions
MovingEnvs ==
  {Env({}, DefaultCosts, <<m>>) : m \in PositionLists(Cells) \cup {<<>>}}

\* a 1-wide corridor (row 0) with a periodic blocker in it
CorridorCells == {c \in Cells : c[2] = 0}
CorridorEnvs ==
  {Env(Cells \ CorridorCells, DefaultCosts, <<m>>) : m \in PositionLists(CorridorCells)}

\* varied terrain: one cell given a cost in 0..MaxTerrainCost (set_terrain_cost)
TerrainEnvs ==
  {Env({}, [DefaultCosts EXCEPT ![c] = k], <<>>) : c \in Cells, k \in 0..MaxTerrainCost}

AgentEnvs == StaticEnvs \cup MovingEnvs \cup CorridorEnvs \cup TerrainEnvs

\* state after GridEnvironment and DeliveryAgent construction
Init ==
  /\ \E e \in AgentEnvs :
       /\ grid_obstacles = e.grid_obstacles
       /\ terrain_costs = e.terrain_costs
       /\ moving_obstacles = e.moving_obstacles
  /\ current_time \in 0..MaxStartTime
  /\ position \in Cells
  /\ start_pos = position
  /\ algorithm_name \in Algorithms
  /\ goal = NoPosition
  /\ max_steps = 0
  /\ path = <<>>
  /\ path_index = 0
  /\ total_cost = 0
  /\ total_time = 0
  /\ replanning_count = 0
  /\ search_results = <<>>
  /\ steps = 0
  /\ pc = "start"
  /\ ret = FALSE
  /\ hist = NoHistory

Next == PlanInitial \/ Step \/ Finish \/ Reset

Spec == Init /\ [][Next]_vars

\* algorithm names given to the DeliveryAgent constructor that are not keys of
\* the algorithms dictionary
UnknownNames == {"dijkstra", "ASTAR", ""}

\* DeliveryAgent.__init__(environment, algorithm): the attributes are set in
\* the order of the code, so algorithm_name holds the name also when
\* _create_algorithm raises and no agent is returned (pc = "error")
Construct ==
  /\ pc = "new"
  /\ \E algorithm \in Algorithms \cup UnknownNames :
       /\ position' = start_pos
       /\ algorithm_name' = algorithm
       /\ pc' = IF create_algorithm(algorithm) = "ValueError" THEN "error" ELSE "start"
  /\ UNCHANGED <<EnvVars, current_time, path, path_index, total_cost, total_time,
                 replanning_count, search_results, goal, max_steps, steps, ret,
                 hist>>

\* an environment before any agent is constructed on it; start_pos is None
\* unless set_cell was called with CellType.START
CreateInit ==
  /\ \E e \in CorridorEnvs \cup TerrainEnvs :
       /\ grid_obstacles = e.grid_obstacles
       /\ terrain_costs = e.terrain_costs
       /\ moving_obstacles = e.moving_obstacles
  /\ current_time = 0
  /\ start_pos \in Cells \cup {NoPosition}
  /\ position = NoPosition
  /\ algorithm_name = "none"
  /\ goal = NoPosition
  /\ max_steps = 0
  /\ path = <<>>
  /\ path_index = 0
  /\ total_cost = 0
  /\ total_time = 0
  /\ replanning_count = 0
  /\ search_results = <<>>
  /\ steps = 0
  /\ pc = "new"
  /\ ret = FALSE
  /\ hist = NoHistory

CreateNext == Construct \/ PlanInitial \/ Step \/ Finish \/ Reset

CreateSpec == CreateInit /\ [][CreateNext]_vars

(* ------------- the agent driven step by step by its caller ------------ *)
\* the cell types given to set_cell
CellTypes == {"EMPTY", "OBSTACLE", "START", "GOAL"}

\* the cells the caller changes: the three cells around the start cell
EditCells == {<<1, 0>>, <<0, 1>>, <<1, 1>>}

\* the costs given to set_cell (1 is the default) and set_terrain_cost
EditCosts == {1, MaxTerrainCost}

\* the position lists of the moving obstacles the caller adds
EditObstacles == {<<c>> : c \in EditCells}

\* GridEnvironment.set_cell(x, y, cell_type, cost); goal_pos is not read by
\* the agent and not kept
set_cell(x, y, cell_type, cost) ==
  IF is_valid_position(x, y)
  THEN /\ grid_obstacles' = IF cell_type = "OBSTACLE"
                            THEN grid_obstacles \cup {<<x, y>>}
                            ELSE grid_obstacles \ {<<x, y>>}
       /\ terrain_costs' = [terrain_costs EXCEPT ![<<x, y>>] = cost]
       /\ start_pos' = IF cell_type = "START" THEN <<x, y>> ELSE start_pos
  ELSE UNCHANGED <<grid_obstacles, terrain_costs, start_pos>>

\* GridEnvironment.set_terrain_cost(x, y, cost)
set_terrain_cost(x, y, cost) ==
  IF is_valid_position(x, y)
  THEN terrain_costs' = [terrain_costs EXCEPT ![<<x, y>>] = cost]
  ELSE UNCHANGED terrain_costs

\* GridEnvironment.add_moving_obstacle(MovingObstacle(id, positions))
add_moving_obstacle(positions) ==
  moving_obstacles' = Append(moving_obstacles, positions)

\* the caller plans a path to a goal: agent.plan_path(goal)
ApiPlanPath ==
  /\ pc = "api"
  /\ search_results = <<>>
  /\ \E g \in Cells :
       /\ goal' = g
       /\ \E result \in find_path(algorithm_name, position, g, current_time) :
            plan_path(g, current_time, result)
  /\ hist' = [hist EXCEPT !.start0 = position, !.time0 = current_time]
  /\ UNCHANGED <<EnvVars, current_time, position, total_cost, total_time,
                 replanning_count, algorithm_name, max_steps, steps, pc, ret>>

AgentVars == <<current_time, position, path, path_index, total_cost,
               total_time, replanning_count, search_results, algorithm_name,
               goal, max_steps, steps, pc, ret>>

\* the caller changes a cell of the map: environment.set_cell(x, y, type, cost)
ApiSetCell ==
  /\ pc = "api"
  /\ hist.edits < MaxEdits
  /\ \E c \in EditCells, cell_type \in CellTypes, cost \in EditCosts :
       set_cell(c[1], c[2], cell_type, cost)
  /\ hist' = [hist EXCEPT !.edits = @ + 1]
  /\ UNCHANGED <<moving_obstacles, AgentVars>>

\* the caller changes a terrain cost: environment.set_terrain_cost(x, y, cost)
ApiSetTerrainCost ==
  /\ pc = "api"
  /\ hist.edits < MaxEdits
  /\ \E c \in EditCells, cost \in EditCosts : set_terrain_cost(c[1], c[2], cost)
  /\ hist' = [hist EXCEPT !.edits = @ + 1]
  /\ UNCHANGED <<grid_obstacles, moving_obstacles, start_pos, AgentVars>>

\* the caller adds a moving obstacle: environment.add_moving_obstacle(obstacle)
ApiAddMovingObstacle ==
  /\ pc = "api"
  /\ hist.edits < MaxEdits
  /\ \E m \in EditObstacles : add_moving_obstacle(m)
  /\ hist' = [hist EXCEPT !.edits = @ + 1]
  /\ UNCHANGED <<grid_obstacles, terrain_costs, start_pos, AgentVars>>

\* the caller calls agent.execute_step(); ret holds what it returned
ApiExecuteStep ==
  /\ pc = "api"
  /\ search_results # <<>>
  /\ hist.calls < MaxStepBudget
  /\ \E ok \in BOOLEAN : execute_step(ok) /\ ret' = ok
  /\ UNCHANGED <<EnvVars, algorithm_name, goal, max_steps, steps, pc>>

ExecInit ==
  /\ \E e \in {Env({}, DefaultCosts, <<>>)} :
       /\ grid_obstacles = e.grid_obstacles
       /\ terrain_costs = e.terrain_costs
       /\ moving_obstacles = e.moving_obstacles
  /\ current_time = 0
  /\ start_pos = <<0, 0>>
  /\ position = start_pos
  /\ algorithm_name \in Algorithms
  /\ goal = NoPosition
  /\ max_steps = 0
  /\ path = <<>>
  /\ path_index = 0
  /\ total_cost = 0
  /\ total_time = 0
  /\ replanning_count = 0
  /\ search_results = <<>>
  /\ steps = 0
  /\ pc = "api"
  /\ ret = FALSE
  /\ hist = NoHistory

ExecNext ==
  \/ ApiPlanPath
  \/ ApiExecuteStep
  \/ ApiSetCell
  \/ ApiSetTerrainCost
  \/ ApiAddMovingObstacle
  \/ Reset

ExecSpec == ExecInit /\ [][ExecNext]_vars

(* ------------------- the algorithms as pure functions ------------------ *)
\* every terrain cost map over 0..MaxTerrainCost, no obstacles
CostEnvs == {Env({}, m, <<>>) : m \in [Cells -> 0..MaxTerrainCost]}

\* the agent is idle; position, goal and current_time hold the arguments
\* start, goal and start_time of the find_path calls
SearchInputs(envs, times) ==
  /\ \E e \in envs :
       /\ grid_obstacles = e.grid_obstacles
       /\ terrain_costs = e.terrain_costs
       /\ moving_obstacles = e.moving_obstacles
  /\ current_time \in times
  /\ start_pos = NoPosition
  /\ position \in Cells
  /\ goal \in Cells
  /\ algorithm_name = "none"
  /\ max_steps = 0
  /\ path = <<>>
  /\ path_index = 0
  /\ total_cost = 0
  /\ total_time = 0
  /\ replanning_count = 0
  /\ search_results = <<>>
  /\ steps = 0
  /\ pc = "search"
  /\ ret = FALSE
  /\ hist = NoHistory

\* one find_path call on the inputs; its result is appended to search_results
Run(n, algorithm) ==
  /\ pc = "search"
  /\ Len(search_results) = n
  /\ algorithm_name' = algorithm
  /\ \E result \in find_path(algorithm, position, goal, current_time) :
       search_results' = Append(search_results, result)
  /\ UNCHANGED <<EnvVars, current_time, position, path, path_index, total_cost,
                 total_time, replanning_count, goal, max_steps, steps, pc, ret,
                 hist>>

RunUCS == Run(0, "ucs")
RunAStar == Run(1, "astar")
RunBFS == Run(2, "bfs")
RunTemporal == Run(3, "temporal_astar")
RunHill == Run(4, "hill_climbing")

SearchInit == SearchInputs(AgentEnvs, 0..MaxStartTime)
SearchNext == RunUCS \/ RunAStar \/ RunBFS \/ RunTemporal \/ RunHill
SearchSpec == SearchInit /\ [][SearchNext]_vars

\* cost maps with one obstacle cell (set_cell with OBSTACLE keeps cost 1 there)
WalledCostEnvs ==
  UNION {{Env({c}, m, <<>>) : m \in {n \in [Cells -> 0..MaxTerrainCost] : n[c] = 1}}
         : c \in Cells}

\* find_path of a TemporalAStar constructed with planning_horizon = ShortHorizon
RunTemporalShort ==
  /\ pc = "search"
  /\ Len(search_results) = 0
  /\ algorithm_name' = "temporal_astar"
  /\ search_results' =
       <<TemporalAStar_search(position, goal, current_time, ShortHorizon).result>>
  /\ UNCHANGED <<EnvVars, current_time, position, path, path_index, total_cost,
                 total_time, replanning_count, goal, max_steps, steps, pc, ret,
                 hist>>

HorizonInit == SearchInputs(AgentEnvs, 0..MaxStartTime)
HorizonNext == RunTemporalShort
HorizonSpec == HorizonInit /\ [][HorizonNext]_vars

CostInit == SearchInputs(CostEnvs \cup WalledCostEnvs \cup StaticEnvs, {0})
CostNext == RunUCS \/ RunAStar \/ RunBFS \/ RunTemporal
CostSpec == CostInit /\ [][CostNext]_vars

(* ------------------------------ properties ----------------------------- *)
\* cells connected to a cell of S through cells that are not static obstacles
RECURSIVE ReachSet(_)
ReachSet(S) ==
  LET T == S \cup {c \in Cells \ grid_obstacles : \E d \in S : Adjacent(c, d)}
  IN IF T = S THEN S ELSE ReachSet(T)

\* a route from a to b exists on the static map
Reachable(a, b) == b \in ReachSet({a})

Last(seq) == seq[Len(seq)]

Navigating == pc \in {"start", "loop", "done"}

\* C1 as stated: when navigation has ended after exactly one blocked waypoint
\* and a route from the agent's position to the goal exists, the agent is at
\* the goal and navigate_to_goal returned True.
C1_Original ==
  (pc = "done" /\ replanning_count = 1 /\ Reachable(position, goal))
    => (position = goal /\ ret)

\* C1 (amended): when navigation has ended after exactly one blocked waypoint
\* and a route from the agent's position to the goal exists, then
\* replanning_count is 1 and the agent is at the goal with return value True,
\* unless the step budget max_steps was used up first.
C1_ReplanOnceReachesGoal ==
  (pc = "done" /\ replanning_count = 1 /\ Reachable(position, goal))
    => \/ position = goal /\ ret /\ Len(search_results) = 2
       \/ steps = max_steps

C1_Witness ==
  /\ pc = "done" /\ replanning_count = 1 /\ Len(hist.replans) = 1
  /\ hist.start0 # goal /\ position = goal /\ ret
  /\ steps < max_steps

\* C2: navigate_to_goal terminates, because every iteration of its loop either
\* ends the navigation or uses up one unit of the budget max_steps - steps,
\* which is never negative; the number of execute_step calls never exceeds
\* max_steps, each call being an executed move or a replanning attempt; when
\* the budget is used up away from the goal it returns False.  A navigation
\* that has returned does nothing more: only reset() follows it.
C2_BudgetAndTermination ==
  /\ [](pc \in {"loop", "done"} =>
          /\ hist.calls <= max_steps
          /\ hist.calls = hist.moves + replanning_count
          /\ hist.calls = steps /\ steps <= max_steps
          /\ (pc = "done" /\ hist.calls = max_steps /\ position # goal => ~ret))
  /\ [][/\ pc = "done" => pc' = "start" /\ steps' = 0 /\ hist'.calls = 0
        /\ pc = "start" => pc' \in {"loop", "done"} \/ (pc' = "start" /\ steps' = 0)
        /\ pc = "loop" =>
             \/ pc' = "done"
             \/ pc' = "loop" /\ steps' = steps + 1 /\ max_steps' = max_steps]_vars

C2_Witness ==
  /\ pc = "done" /\ hist.calls = max_steps /\ position # goal /\ ~ret
  /\ replanning_count >= 2 /\ hist.moves >= 1
  /\ search_results[1].success

\* C3: every executed move puts the agent on a cell that is in bounds, not a
\* static obstacle and not occupied by a moving obstacle at the environment
\* time read before the move.
C3_MovesOntoPassableCells ==
  [][hist'.moves = hist.moves + 1 =>
       /\ position' \in Cells \ grid_obstacles
       /\ \A i \in 1..Len(moving_obstacles) :
            get_position_at_time(moving_obstacles[i], current_time) # position'
       /\ is_passable(position'[1], position'[2], current_time)]_vars

C3_Witness ==
  /\ hist.moves >= 2 /\ replanning_count >= 1
  /\ position # hist.start0
  /\ \E i \in 1..Len(moving_obstacles) : Len(moving_obstacles[i]) >= 2

\* C4: when the initial planning call fails, navigation has ended with False,
\* no execute_step call was made and position, total_cost, total_time and the
\* environment time are as at the start; a failed replanning result is the
\* last search of the navigation, which has ended with False.
C4_PlanningFailureEndsNavigation ==
  /\ (pc \in {"loop", "done"} /\ ~search_results[1].success) =>
        /\ pc = "done" /\ ~ret
        /\ hist.calls = 0 /\ hist.moves = 0 /\ Len(search_results) = 1
        /\ position = hist.start0 /\ current_time = hist.time0
        /\ total_cost = 0 /\ total_time = 0
  /\ Navigating =>
       \A i \in 2..Len(search_results) :
         ~search_results[i].success =>
           i = Len(search_results) /\ pc = "done" /\ ~ret

C4_Witness ==
  /\ pc = "done" /\ ~ret /\ ~search_results[1].success
  /\ hist.start0 \notin grid_obstacles /\ goal \notin grid_obstacles

\* C5: navigate_to_goal returns True exactly when the agent's position equals
\* the goal at the moment it returns.
C5_ReturnsTrueIffAtGoal ==
  pc = "done" => (ret <=> position = goal)

C5_Witness ==
  pc = "done" /\ ret /\ position = goal /\ hist.start0 = goal /\ hist.calls = 0

\* C6: during a navigation the environment time is its value at the start plus
\* total_time, and total_time is the number of executed moves.
C6_TimeAdvancesPerMove ==
  pc \in {"loop", "done"} =>
    /\ current_time = hist.time0 + total_time
    /\ total_time = hist.moves

C6_Witness ==
  /\ pc = "done" /\ hist.time0 >= 1 /\ hist.moves >= 2 /\ replanning_count >= 1
  /\ current_time = hist.time0 + hist.moves

\* C7: every replanning call searches from the agent's position at the
\* environment's time to the goal given to navigate_to_goal, and the committed
\* path always ends at that goal.
C7_ReplanKeepsGoal ==
  /\ [](Navigating /\ path # <<>> => Last(path) = goal)
  /\ [][replanning_count' = replanning_count + 1 =>
          /\ Last(hist'.replans) =
               [start |-> position, goal |-> goal, time |-> current_time]
          /\ Last(search_results').success
          /\ Last(search_results').path = path'
          /\ path'[1] = position /\ Last(path') = goal
          /\ path_index' = 0]_vars

C7_Witness ==
  /\ pc = "loop" /\ replanning_count >= 1 /\ hist.moves >= 2
  /\ path_index >= 1 /\ Last(path) = goal /\ position # goal
  /\ Last(hist.replans).start # hist.start0

\* product of the lengths of the moving obstacles' position lists 1..i: after
\* that many ticks every obstacle is back where it was
RECURSIVE ObstaclePeriod(_)
ObstaclePeriod(i) ==
  IF i = 0 THEN 1
  ELSE IF Len(moving_obstacles[i]) = 0 THEN ObstaclePeriod(i - 1)
  ELSE Len(moving_obstacles[i]) * ObstaclePeriod(i - 1)

\* cell c is inside the grid, not a static obstacle and not under a moving
\* obstacle at time t
Free(c, t) ==
  /\ c \in Cells \ grid_obstacles
  /\ \A i \in 1..Len(moving_obstacles) :
       Len(moving_obstacles[i]) > 0 =>
         moving_obstacles[i][(t % Len(moving_obstacles[i])) + 1] # c

\* pairs <<cell, time modulo the period>> that an agent can be in when each tick
\* it waits or moves to a 4-adjacent cell, the cell being free at the new time
RECURSIVE TimeReachSet(_)
TimeReachSet(S) ==
  LET P == ObstaclePeriod(Len(moving_obstacles))
      T == S \cup {x \in Cells \X (0..(P - 1)) :
                     \E y \in S : /\ x[1] = y[1] \/ Adjacent(x[1], y[1])
                                  /\ x[2] = (y[2] + 1) % P
                                  /\ Free(x[1], y[2] + 1)}
  IN IF T = S THEN S ELSE TimeReachSet(T)

\* b can be entered at some time by an agent that is on a at time t
TimeReachable(a, t, b) ==
  \E x \in TimeReachSet({<<a, t % ObstaclePeriod(Len(moving_obstacles))>>}) : x[1] = b

Failure(r) == ~r.success /\ r.path = <<>> /\ r.cost = Infinity

\* C8: for each of the five algorithms the result has success = true exactly
\* when its path is non-empty, starts at the search start and ends at the goal.
C8_SuccessIffPathFromStartToGoal ==
  pc = "search" =>
    \A i \in 1..Len(search_results) :
      search_results[i].success <=>
        /\ search_results[i].path # <<>>
        /\ search_results[i].path[1] = position
        /\ Last(search_results[i].path) = goal

C8_Witness ==
  /\ pc = "search" /\ Len(search_results) = 5
  /\ search_results[1].success /\ search_results[2].success
  /\ search_results[3].success /\ ~search_results[4].success
  /\ Len(search_results[5].path) >= 3

\* C9: when no route from the start to the goal exists on the static map, UCS,
\* A* and BFS return success = false, an empty path and infinite cost; when the
\* goal cannot be entered at any time in the presence of the moving obstacles,
\* Temporal A* returns the same failure value.
C9_UnreachableGoalIsFailureValue ==
  pc = "search" =>
    \A i \in 1..Len(search_results) :
      /\ (i <= 3 /\ ~Reachable(position, goal)) => Failure(search_results[i])
      /\ (i = 4 /\ ~TimeReachable(position, current_time, goal)) =>
           Failure(search_results[i])

C9_Witness ==
  /\ pc = "search" /\ Len(search_results) >= 4
  /\ position \notin grid_obstacles /\ goal \notin grid_obstacles
  /\ ~Reachable(position, goal)
  /\ \A i \in 1..4 : Failure(search_results[i])

\* the least terrain cost of a walk from a to every cell: d is relaxed until it
\* no longer changes (entering cell c costs terrain_costs[c])
RECURSIVE Relax(_)
Relax(d) ==
  LET e == [c \in Cells |->
              LET via == {d[n] + terrain_costs[c] :
                            n \in {m \in Cells : Adjacent(m, c) /\ d[m] < Infinity}}
                  best == IF c \in grid_obstacles \/ via = {} THEN d[c]
                          ELSE CHOOSE v \in via \cup {d[c]} :
                                 \A w \in via \cup {d[c]} : v <= w
              IN best]
  IN IF e = d THEN d ELSE Relax(e)

MinCost(a, b) == Relax([c \in Cells |-> IF c = a THEN 0 ELSE Infinity])[b]

\* C10: on a static grid with non-negative terrain costs A* and UCS return the
\* same success flag and, on success, the same cost, which is the least
\* terrain cost of any path from the start to the goal.
C10_AStarAndUCSReturnMinimumCost ==
  (pc = "search" /\ Len(search_results) >= 2) =>
    /\ search_results[1].success = search_results[2].success
    /\ search_results[1].success =>
         /\ search_results[1].cost = search_results[2].cost
         /\ search_results[2].cost = MinCost(position, goal)

\* a path through statically passable cells: consecutive cells are 4-adjacent
\* and every cell after the first is in the grid and not a static obstacle
StaticPath(p) ==
  /\ \A i \in 1..(Len(p) - 1) : Adjacent(p[i], p[i + 1])
  /\ \A i \in 2..Len(p) : p[i] \in Cells \ grid_obstacles

\* sum of the terrain costs of the cells of p from index i on
RECURSIVE PathCost(_, _)
PathCost(p, i) == IF i > Len(p) THEN 0 ELSE terrain_costs[p[i]] + PathCost(p, i + 1)

\* C11: a successful UCS result has the least cost of any start-to-goal path
\* through statically passable cells (sum of the terrain costs of the cells
\* entered, start excluded), and the returned path has exactly that cost.
C11_UCSReturnsMinimumCostPath ==
  (pc = "search" /\ Len(search_results) >= 1 /\ search_results[1].success) =>
    /\ search_results[1].cost = MinCost(position, goal)
    /\ StaticPath(search_results[1].path)
    /\ PathCost(search_results[1].path, 2) = search_results[1].cost

C11_Witness ==
  /\ pc = "search" /\ Len(search_results) >= 3
  /\ search_results[1].success /\ search_results[3].success
  /\ grid_obstacles # {}
  /\ Len(search_results[1].path) > Len(search_results[3].path)
  /\ search_results[1].cost = MinCost(position, goal)
  /\ search_results[1].cost < PathCost(search_results[3].path, 2)

\* the least number of steps from a cell of S to b through statically passable
\* cells, n steps having been made to reach S
RECURSIVE StepsFrom(_, _, _)
StepsFrom(S, b, n) ==
  IF b \in S THEN n
  ELSE LET T == S \cup {c \in Cells \ grid_obstacles : \E d \in S : Adjacent(c, d)}
       IN IF T = S THEN Infinity ELSE StepsFrom(T, b, n + 1)

MinSteps(a, b) == StepsFrom({a}, b, 0)

\* C12: a successful BFS result is a path through statically passable cells
\* with the least number of steps, and its cost is that number of steps
\* whatever the terrain costs are.
C12_BFSReturnsFewestSteps ==
  (pc = "search" /\ Len(search_results) >= 3 /\ search_results[3].success) =>
    /\ StaticPath(search_results[3].path)
    /\ Len(search_results[3].path) - 1 = MinSteps(position, goal)
    /\ search_results[3].cost = Len(search_results[3].path) - 1

C12_Witness ==
  /\ pc = "search" /\ Len(search_results) >= 3
  /\ search_results[3].success /\ search_results[3].cost >= 3
  /\ search_results[3].cost # PathCost(search_results[3].path, 2)
  /\ search_results[3].cost = MinSteps(position, goal)
  /\ grid_obstacles # {}

\* some moving obstacle is on cell c at time t
Occupied(c, t) ==
  \E i \in 1..Len(moving_obstacles) :
    /\ Len(moving_obstacles[i]) > 0
    /\ moving_obstacles[i][(t % Len(moving_obstacles[i])) + 1] = c

\* C13: for every successful Temporal A* result and every index k of its path
\* (k = 0 is the start), path[k] is not the position of any moving obstacle at
\* time start_time + k.
C13_TemporalPathAvoidsObstacles ==
  (pc = "search" /\ Len(search_results) >= 4 /\ search_results[4].success) =>
    \A k \in 1..Len(search_results[4].path) :
      ~Occupied(search_results[4].path[k], current_time + k - 1)

\* C14: in an environment with no moving obstacles Temporal A* succeeds
\* exactly when A* succeeds and returns the same cost.
C14_TemporalEqualsAStarWithoutObstacles ==
  (pc = "search" /\ Len(search_results) >= 4 /\ moving_obstacles = <<>>) =>
    /\ search_results[4].success = search_results[2].success
    /\ search_results[4].cost = search_results[2].cost

\* C15 is checked on searches whose horizon is shorter than the routes of the
\* grid (HorizonSpec): every successful Temporal A* result has a path of at
\* most planning_horizon ticks (len(path) - 1 <= planning_horizon).
C15_ShortHorizonSuccessWithinHorizon ==
  (pc = "search" /\ Len(search_results) = 1 /\ search_results[1].success) =>
    Len(search_results[1].path) - 1 <= ShortHorizon

\* C16: Temporal A* terminates: the loop has returned within the iterations
\* allowed, and its search state at return shows that no Node was created
\* from a node whose time - start_time exceeds planning_horizon, that every
\* (position, time) state was expanded at most once
\* (nodes_expanded counts exactly the visited states), and that the states
\* expanded lie within planning_horizon + 1 ticks of start_time.
C16_TemporalSearchIsBounded ==
  (pc = "search" /\ Len(search_results) = 1) =>
    LET f == TemporalAStar_search(position, goal, current_time, ShortHorizon)
    IN /\ f.done
       /\ f.result = search_results[1]
       /\ \A n \in 1..Len(f.nodes) :
            f.nodes[n].parent # 0 =>
              /\ f.nodes[f.nodes[n].parent].time - current_time <= ShortHorizon
              /\ f.nodes[n].time = f.nodes[f.nodes[n].parent].time + 1
       /\ f.nodes_expanded = Cardinality(f.visited)
       /\ \A v \in f.visited :
            v[1] \in Cells /\ v[2] - current_time \in 0..(ShortHorizon + 1)
       /\ f.nodes_expanded <= Cardinality(Cells) * (ShortHorizon + 2)

C16_Witness ==
  /\ pc = "search" /\ Len(search_results) = 1
  /\ ~search_results[1].success
  /\ ~TimeReachable(position, current_time, goal)
  /\ \A t \in 0..(ShortHorizon + 2) : Free(position, current_time + t)
  /\ search_results[1].nodes_expanded >= ShortHorizon + 2

\* every [path, cost, total] the hill climber can hold as its best after k
\* restart rounds of a search from the state's start to its goal
BestAfter(k) ==
  LET initial_result == AStarSearch_find_path(position, goal, current_time)
  IN restart_rounds({[path |-> initial_result.path, cost |-> initial_result.cost,
                      total |-> initial_result.nodes_expanded]}, current_time, k)

\* C17: whatever the random choices, the cost of a hill-climbing result is
\* never greater than the cost of the initial A* path, and no restart round
\* ends with a best cost greater than the one it started with.
C17_HillClimbingNeverRegresses ==
  (pc = "search" /\ Len(search_results) = 5) =>
    /\ search_results[5].cost <= search_results[2].cost
    /\ search_results[2].success =>
         \A k \in 0..(max_restarts - 1) :
           \A b \in BestAfter(k) :
             \A o \in restart_round([path |-> b.path, cost |-> b.cost], current_time) :
               o.cost <= b.cost

\* a restart round climbs to a valid path that costs more than the best one
C17_Witness ==
  /\ pc = "search" /\ Len(search_results) = 5
  /\ search_results[5].success
  /\ search_results[5].cost = search_results[2].cost
  /\ \E current_path \in perturb_path(search_results[2].path) :
       LET current_cost == evaluate_path(current_path, current_time)
       IN /\ current_cost < Infinity
          /\ hill_climb([path |-> current_path, cost |-> current_cost, evals |-> 0],
                        current_time).cost > search_results[2].cost

\* a list of positions that leads from the state's start to its goal over
\* cells of the grid that are no static obstacle, one 4-neighbour step at a time
WalkFromStartToGoal(p) ==
  /\ Len(p) >= 1
  /\ p[1] = position
  /\ Last(p) = goal
  /\ \A i \in 1..(Len(p) - 1) :
       /\ Adjacent(p[i], p[i + 1])
       /\ p[i + 1] \in Cells \ grid_obstacles

\* every path a restart round can end its climb with, from any best path the
\* earlier rounds can have left (these are the candidates for the result)
ClimbedPaths ==
  UNION { UNION { { hill_climb([path |-> current_path,
                               cost |-> evaluate_path(current_path, current_time),
                               evals |-> 0], current_time).path
                    : current_path \in
                        {q \in perturb_path(b.path) :
                           evaluate_path(q, current_time) < Infinity} }
                  : b \in BestAfter(k) }
          : k \in 0..(max_restarts - 1) }

\* C18: whatever the random choices, a successful hill-climbing result, and
\* every path a restart round ends its climb with, starts at the start, ends
\* at the goal, and moves between 4-adjacent cells of the grid only.
C18_HillClimbingPathIsConnected ==
  (pc = "search" /\ Len(search_results) = 5 /\ search_results[5].success) =>
    /\ WalkFromStartToGoal(search_results[5].path)
    /\ \A p \in ClimbedPaths : WalkFromStartToGoal(p)

\* a successful result of at least two moves for which some restart round
\* climbed to a path other than the A* path
C18_Witness ==
  /\ pc = "search" /\ Len(search_results) = 5
  /\ search_results[5].success
  /\ Len(search_results[5].path) >= 3
  /\ \E p \in ClimbedPaths : p # search_results[2].path

\* C19: the hill climber succeeds whenever its baseline A* search succeeds,
\* whether or not a restart round improved the path; when the baseline fails
\* the only result is the A* failure result itself, with the A* label and the
\* A* expansion count (no restart round has added to it).
C19_HillClimbingFollowsBaseline ==
  (pc = "search" /\ Len(search_results) = 5) =>
    LET results == HillClimbingReplanner_find_path(position, goal, current_time)
    IN /\ search_results[5] \in results
       /\ search_results[2].success =>
            \A r \in results : r.success /\ r.algorithm = "Hill Climbing"
       /\ ~search_results[2].success =>
            /\ results = {search_results[2]}
            /\ search_results[5] = search_results[2]
            /\ search_results[5].algorithm = "A*"

\* the baseline failed and the hill climber returned its result
C19_Witness ==
  /\ pc = "search" /\ Len(search_results) = 5
  /\ ~search_results[2].success
  /\ ~search_results[5].success
  /\ search_results[5].nodes_expanded = search_results[2].nodes_expanded
  /\ search_results[2].nodes_expanded >= 2

\* C20: on every instance the number of nodes A* reports as expanded is at
\* most the number UCS reports as expanded for the same grid, start and goal.
C20_AStarExpandsNoMoreThanUCS ==
  (pc = "search" /\ Len(search_results) >= 2) =>
    search_results[2].nodes_expanded <= search_results[1].nodes_expanded

\* SearchResult.algorithm written by the variant a name stands for
VariantLabel(algorithm) ==
  CASE algorithm = "bfs" -> "BFS"
    [] algorithm = "ucs" -> "UCS"
    [] algorithm = "astar" -> "A*"
    [] algorithm = "temporal_astar" -> "Temporal A*"
    [] algorithm = "hill_climbing" -> "Hill Climbing"
    [] OTHER -> "none"

\* C21: construction with a name outside the five known ones ends in the
\* error, and only then; after the error no search has run and nothing of the
\* agent is in use; after a successful construction every search result of
\* the agent carries the label of the variant its own name stands for (the
\* hill climber passes the A* failure result through).
C21_UnknownAlgorithmIsAnError ==
  /\ pc = "error" <=> (pc # "new" /\ pc # "search" /\ algorithm_name \notin Algorithms)
  /\ pc = "error" =>
       /\ algorithm_name \in UnknownNames
       /\ search_results = <<>> /\ path = <<>> /\ goal = NoPosition
       /\ ~ENABLED CreateNext
  /\ (Navigating /\ algorithm_name \in Algorithms) =>
       \A i \in 1..Len(search_results) :
         \/ search_results[i].algorithm = VariantLabel(algorithm_name)
         \/ /\ algorithm_name = "hill_climbing"
            /\ ~search_results[i].success
            /\ search_results[i].algorithm = "A*"

\* a construction with an unknown name has raised the error
C21_Witness ==
  pc = "error" /\ algorithm_name = "dijkstra" /\ position \in Cells

\* the waypoint execute_step is about to inspect is impassable now
NextWaypointBlocked ==
  /\ Len(path) > 0 /\ path_index < Len(path)
  /\ ~is_passable(path[path_index + 1][1], path[path_index + 1][2], current_time)

\* C22: an execute_step call that finds the next waypoint impassable leaves
\* position, total_cost, total_time and the environment time unchanged and
\* adds exactly 1 to replanning_count, whether the replanning succeeds (the
\* call returns True) or fails (it returns False); a call that finds the
\* waypoint passable leaves replanning_count unchanged.
C22_BlockedStepOnlyCountsReplanning ==
  [][hist'.calls = hist.calls + 1 =>
       IF NextWaypointBlocked
       THEN /\ replanning_count' = replanning_count + 1
            /\ position' = position
            /\ total_cost' = total_cost
            /\ total_time' = total_time
            /\ current_time' = current_time
            /\ Len(search_results') = Len(search_results) + 1
            /\ ret' = Last(search_results').success
       ELSE replanning_count' = replanning_count]_vars

\* a blocked step whose replanning failed, after a blocked step whose
\* replanning succeeded and at least one executed move
C22_Witness ==
  /\ pc = "api" /\ replanning_count >= 2 /\ hist.moves >= 1
  /\ ~ret /\ ~Last(search_results).success
  /\ \E i \in 2..(Len(search_results) - 1) : search_results[i].success
  /\ total_time = hist.moves /\ position # hist.start0

\* C23: when navigate_to_goal has returned True without any replanning under
\* ucs or astar, total_cost equals the cost of the initial search result, the
\* sum of the terrain costs of the path's cells without the start cell.
C23_TotalCostIsPlannedCost ==
  (pc = "done" /\ ret /\ replanning_count = 0 /\ algorithm_name \in {"ucs", "astar"}) =>
    /\ total_cost = search_results[1].cost
    /\ total_cost = PathCost(search_results[1].path, 2)

\* cost of the pairs p[i], p[i+1] onwards: 1 for a wait, the destination's
\* terrain cost for a move
RECURSIVE WaitMoveCost(_, _)
WaitMoveCost(p, i) ==
  IF i >= Len(p) THEN 0
  ELSE (IF p[i + 1] = p[i] THEN 1 ELSE terrain_costs[p[i + 1]]) + WaitMoveCost(p, i + 1)

\* C24: in a successful Temporal A* path every consecutive pair is a wait on
\* the same cell or a move to a 4-adjacent cell, every Node of the search is
\* one tick later than its parent and costs 1 more (wait) or the terrain cost
\* of its cell more (move), and the reported cost is the sum over the path's
\* pairs of 1 per wait and the destination's terrain cost per move.
C24_TemporalPathIsWaitsAndMoves ==
  (pc = "search" /\ Len(search_results) >= 4 /\ search_results[4].success) =>
    LET p == search_results[4].path
        nodes == TemporalAStar_search(position, goal, current_time,
                                      planning_horizon).nodes
    IN /\ \A i \in 1..(Len(p) - 1) : p[i + 1] = p[i] \/ Adjacent(p[i], p[i + 1])
       /\ search_results[4].cost = WaitMoveCost(p, 1)
       /\ \A n \in 2..Len(nodes) :
            LET parent == nodes[nodes[n].parent]
            IN /\ nodes[n].time = parent.time + 1
               /\ \/ /\ nodes[n].position = parent.position
                     /\ nodes[n].g_cost = parent.g_cost + 1
                  \/ /\ Adjacent(parent.position, nodes[n].position)
                     /\ nodes[n].g_cost = parent.g_cost
                                          + terrain_costs[nodes[n].position]

\* a successful path with a wait and a move
C24_Witness ==
  /\ pc = "search" /\ Len(search_results) >= 4 /\ search_results[4].success
  /\ \E i \in 1..(Len(search_results[4].path) - 1) :
       search_results[4].path[i + 1] = search_results[4].path[i]
  /\ \E i \in 1..(Len(search_results[4].path) - 1) :
       search_results[4].path[i + 1] # search_results[4].path[i]
  /\ search_results[4].cost >= 2

\* the paths a restart round can start its climb from: a perturbation, of
\* finite evaluated cost, of a best path the earlier rounds can have left
ClimbStarts ==
  UNION { UNION { {q \in perturb_path(b.path) :
                     evaluate_path(q, current_time) < Infinity}
                  : b \in BestAfter(k) }
          : k \in 0..(max_restarts - 1) }

\* the substitutions <<index, cell>> of one interior waypoint of p by a grid
\* neighbour of it that leave a walk over 4-adjacent free cells
ValidSubstitutions(p) ==
  {sub \in (2..(Len(p) - 1)) \X (Cells \ grid_obstacles) :
     LET q == [p EXCEPT ![sub[1]] = sub[2]]
     IN /\ Adjacent(p[sub[1]], sub[2])
        /\ \A j \in 1..(Len(q) - 1) :
             Adjacent(q[j], q[j + 1]) /\ q[j + 1] \in Cells \ grid_obstacles}

\* the paths the while improved loop holds one after the other, from c on
RECURSIVE ClimbTrace(_)
ClimbTrace(c) ==
  LET neighbors == get_path_neighbors(c.path)
      f == first_improving(neighbors, 1, c.cost, current_time)
  IN IF f[1] = 0 THEN <<c>>
     ELSE <<c>> \o ClimbTrace([path |-> neighbors[f[1]],
                               cost |-> evaluate_path(neighbors[f[1]], current_time),
                               evals |-> c.evals + f[2]])

\* C25: every restart round's hill-climbing loop ends: along the paths it
\* holds the evaluated cost strictly decreases and the length stays the same,
\* each pass evaluates valid single-waypoint substitutions only, the loop
\* ends on a path without a strictly improving valid substitution, and the
\* result of find_path is one that exists after max_restarts rounds.
C25_HillClimbingLoopTerminates ==
  (pc = "search" /\ Len(search_results) = 5 /\ search_results[5].success) =>
    /\ \A q \in ClimbStarts :
         LET c0 == [path |-> q, cost |-> evaluate_path(q, current_time), evals |-> 0]
             trace == ClimbTrace(c0)
             final == hill_climb(c0, current_time)
         IN /\ \A i \in 1..(Len(trace) - 1) :
                 /\ trace[i + 1].cost < trace[i].cost
                 /\ Len(trace[i + 1].path) = Len(trace[i].path)
                 /\ trace[i + 1].evals - trace[i].evals
                      <= Cardinality(ValidSubstitutions(trace[i].path))
            /\ Len(trace) <= c0.cost + 1
            /\ final.path = trace[Len(trace)].path
            /\ final.cost = trace[Len(trace)].cost
            /\ final.evals - trace[Len(trace)].evals
                 <= Cardinality(ValidSubstitutions(final.path))
            /\ \A sub \in ValidSubstitutions(final.path) :
                 evaluate_path([final.path EXCEPT ![sub[1]] = sub[2]], current_time)
                   >= final.cost
    /\ \E b \in BestAfter(max_restarts) :
         /\ search_results[5].path = b.path
         /\ search_results[5].cost = b.cost
         /\ search_results[5].nodes_expanded = b.total

\* a restart round ran its loop on a valid path of at least two moves that
\* is not the A* path
C25_Witness ==
  /\ pc = "search" /\ Len(search_results) = 5 /\ search_results[5].success
  /\ \E q \in ClimbStarts :
       /\ Len(q) >= 3
       /\ q # search_results[2].path
       /\ hill_climb([path |-> q, cost |-> evaluate_path(q, current_time),
                      evals |-> 0], current_time).cost < Infinity

\* the navigation runs under temporal_astar and its start cell was passable
\* at the time it started
TemporalFromFreeStart ==
  /\ pc \in {"loop", "done"}
  /\ algorithm_name = "temporal_astar"
  /\ hist.start0 \in Cells \ grid_obstacles
  /\ ~Occupied(hist.start0, hist.time0)

\* C26: under temporal_astar from a start cell that is passable when the
\* navigation starts, no execute_step call finds its waypoint blocked: the
\* waypoint path[k] is checked at the environment time start_time + k, the
\* time for which the planner validated it, replanning_count stays 0, and
\* when the initial plan succeeded and max_steps >= len(path) the navigation
\* ends at the goal with True.
C26_TemporalPlanNeedsNoReplanning ==
  TemporalFromFreeStart =>
    /\ replanning_count = 0
    /\ Len(search_results) = 1
    /\ search_results[1].success =>
         /\ path = search_results[1].path
         /\ current_time = hist.time0 + path_index
         /\ path_index < Len(path) =>
              is_passable(path[path_index + 1][1], path[path_index + 1][2],
                          current_time)
         /\ (pc = "done" /\ max_steps >= Len(path)) => (ret /\ position = goal)

\* a navigation that waited for a moving obstacle and reached the goal
C26_Witness ==
  /\ TemporalFromFreeStart /\ pc = "done" /\ ret /\ position = goal
  /\ replanning_count = 0 /\ hist.moves = Len(path) /\ Len(path) >= 3
  /\ \E i \in 1..(Len(path) - 1) : path[i + 1] = path[i]

\* C27: every successful plan or replan leaves path_index = 0 and a path
\* whose first element is the agent's position; during a navigation with a
\* committed path the position is an element of the path and path_index is
\* at most len(path); every step leaves the agent on its cell or puts it on
\* a 4-adjacent cell.
C27_AgentStaysOnCommittedPath ==
  /\ []((pc \in {"loop", "done"} /\ path # <<>>) =>
          /\ InSeq(position, path)
          /\ path_index <= Len(path)
          /\ path_index >= 1 => position = path[path_index])
  /\ [][/\ (Len(search_results') > Len(search_results)
            /\ Last(search_results').success) =>
              /\ path' = Last(search_results').path
              /\ path_index' = 0
              /\ path'[1] = position'
        /\ hist'.calls = hist.calls + 1 =>
             position' = position \/ Adjacent(position, position')]_vars

\* after a replanning the agent has moved on along the new path
C27_Witness ==
  /\ pc = "loop" /\ replanning_count >= 1 /\ path_index >= 2
  /\ position = path[path_index] /\ position # path[1]
  /\ position # hist.start0 /\ position # goal

\* a list of cells that steps between 4-adjacent cells, stays on free cells
\* of the grid after its first element and visits no cell twice
SimpleWalk(p) ==
  /\ \A i \in 1..(Len(p) - 1) : Adjacent(p[i], p[i + 1])
  /\ \A i \in 2..Len(p) : p[i] \in Cells \ grid_obstacles
  /\ \A i, j \in 1..Len(p) : i # j => p[i] # p[j]

\* C28: every successful path of UCS, A* and BFS consists of consecutive
\* 4-adjacent cells, every cell after the first is inside the grid and no
\* static obstacle, and no position occurs twice in the path.
C28_StaticPathsAreSimpleWalks ==
  pc = "search" =>
    \A i \in 1..Len(search_results) :
      (i <= 3 /\ search_results[i].success) => SimpleWalk(search_results[i].path)

\* the three static planners each returned a path of at least three moves
\* on a map with obstacles
C28_Witness ==
  /\ pc = "search" /\ Len(search_results) >= 3
  /\ grid_obstacles # {}
  /\ \A i \in 1..3 : search_results[i].success /\ Len(search_results[i].path) >= 4

====
